---- MODULE Spec2Model ----
(***************************************************************************)
(* Model of the two valuation calculators of the repository:               *)
(*   src/models/dcf_model.py      class DCFModel                           *)
(*   src/models/comp_analysis.py  class CompAnalysis                       *)
(*                                                                         *)
(* Numbers.  A Python / numpy float is modelled as a pair <<n, d>>:        *)
(*   d > 0   the rational n/d in lowest terms (rounding is abstracted),    *)
(*   <<1,0>> +inf,  <<-1,0>> -inf,  <<0,0>> NaN,                           *)
(*   <<0,-1>> Python's None.                                               *)
(* The sign of a zero is not modelled.                                     *)
(***************************************************************************)
EXTENDS Integers, Sequences, FiniteSets, TLC

VARIABLES
    forecast_years,        \* DCFModel.forecast_years
    terminal_growth_rate,  \* DCFModel.terminal_growth_rate
    wacc,                  \* DCFModel.wacc
    dcf_pc,                \* "idle": no call in progress; "done": a call has returned
    dcf_call,              \* the method called last on the DCFModel and its arguments
    dcf_ret,               \* what that call returned or raised
    provider,              \* the data provider: ticker -> info record, or a failing fetch
    comp_tickers,          \* CompAnalysis.comp_tickers
    target_data,           \* CompAnalysis.target_data
    comp_data,             \* CompAnalysis.comp_data
    comp_pc,               \* as dcf_pc, for the CompAnalysis instance
    comp_call,             \* the method called last on the CompAnalysis
    comp_ret,              \* what that call returned or raised
    stdout                 \* the tickers fetch_data printed a warning about, in order

dcf_vars == <<forecast_years, terminal_growth_rate, wacc, dcf_pc, dcf_call, dcf_ret>>
comp_vars == <<provider, comp_tickers, target_data, comp_data, comp_pc, comp_call,
               comp_ret, stdout>>
vars == <<dcf_vars, comp_vars>>

----------------------------------------------------------------------------
(* Bounds of the model *)

MaxHist == 4        \* longest FCF history given to calculate_fcf_growth_rate
MaxPipeHist == 2    \* longest FCF history given to calculate_enterprise_value
MaxYears == 3       \* largest forecast_years
MaxPeers == 2       \* longest comp_tickers list

----------------------------------------------------------------------------
(* Floating point values *)

NaN == <<0, 0>>
PosInf == <<1, 0>>
NegInf == <<-1, 0>>
None == <<0, -1>>

IsNone(x) == x[2] = -1
IsNaN(x) == x = NaN
IsInf(x) == x = PosInf \/ x = NegInf
IsFinite(x) == x[2] > 0

Abs(n) == IF n < 0 THEN -n ELSE n
Sign(n) == IF n > 0 THEN 1 ELSE IF n < 0 THEN -1 ELSE 0

RECURSIVE GCD(_, _)
GCD(a, b) == IF b = 0 THEN a ELSE GCD(b, a % b)

\* n/d in lowest terms with a positive denominator (d # 0)
Norm(n, d) ==
    LET g == GCD(Abs(n), Abs(d))
        s == IF d < 0 THEN -1 ELSE 1
    IN  <<s * (n \div g), s * (d \div g)>>

Num(n) == <<n, 1>>

Neg(x) == IF IsNaN(x) THEN NaN ELSE <<-x[1], x[2]>>

\* IEEE addition
Add(x, y) ==
    IF IsNaN(x) \/ IsNaN(y) THEN NaN
    ELSE IF IsInf(x) /\ IsInf(y) THEN (IF x = y THEN x ELSE NaN)
    ELSE IF IsInf(x) THEN x
    ELSE IF IsInf(y) THEN y
    ELSE LET g == GCD(x[2], y[2])
             l == (x[2] \div g) * y[2]
         IN  Norm(x[1] * (l \div x[2]) + y[1] * (l \div y[2]), l)

Sub(x, y) == Add(x, Neg(y))

\* IEEE multiplication
Mul(x, y) ==
    IF IsNaN(x) \/ IsNaN(y) THEN NaN
    ELSE IF IsInf(x) \/ IsInf(y)
         THEN (IF x[1] = 0 \/ y[1] = 0 THEN NaN ELSE <<Sign(x[1]) * Sign(y[1]), 0>>)
    ELSE LET a == Norm(x[1], y[2])
             b == Norm(y[1], x[2])
         IN  Norm(a[1] * b[1], a[2] * b[2])

\* numpy division: a zero divisor gives +-inf or NaN (and a RuntimeWarning), no exception
NpDiv(x, y) ==
    IF IsNaN(x) \/ IsNaN(y) THEN NaN
    ELSE IF IsInf(y) THEN (IF IsInf(x) THEN NaN ELSE Num(0))
    ELSE IF y[1] = 0 THEN (IF x[1] = 0 THEN NaN ELSE <<Sign(x[1]), 0>>)
    ELSE IF IsInf(x) THEN <<Sign(x[1]) * Sign(y[1]), 0>>
    ELSE Mul(x, Norm(y[2], y[1]))

\* x < y on floats; every comparison with NaN is false
Lt(x, y) ==
    IF IsNaN(x) \/ IsNaN(y) THEN FALSE
    ELSE IF x = y THEN FALSE
    ELSE IF x = NegInf \/ y = PosInf THEN TRUE
    ELSE IF x = PosInf \/ y = NegInf THEN FALSE
    ELSE x[1] * y[2] < y[1] * x[2]

Le(x, y) == ~IsNaN(x) /\ ~IsNaN(y) /\ ~Lt(y, x)

\* Python's builtin min(a, b) and max(a, b): the first argument unless the second beats it
PyMin(a, b) == IF Lt(b, a) THEN b ELSE a
PyMax(a, b) == IF Lt(a, b) THEN b ELSE a

\* x ** t for an integer t >= 0
RECURSIVE Pow(_, _)
Pow(x, t) == IF t = 0 THEN Num(1) ELSE Mul(x, Pow(x, t - 1))

\* builtin sum() of a list of floats
RECURSIVE Sum(_)
Sum(s) == IF s = <<>> THEN Num(0) ELSE Add(Sum(SubSeq(s, 1, Len(s) - 1)), s[Len(s)])

\* the values of a sequence in ascending order (no NaN among them)
RECURSIVE Insert(_, _)
Insert(x, s) ==
    IF s = <<>> THEN <<x>>
    ELSE IF Lt(s[1], x) THEN <<s[1]>> \o Insert(x, Tail(s))
    ELSE <<x>> \o s

RECURSIVE Sorted(_)
Sorted(s) == IF s = <<>> THEN <<>> ELSE Insert(s[1], Sorted(Tail(s)))

\* Series.dropna(): the values that are neither NaN nor None
RECURSIVE DropNa(_)
DropNa(s) ==
    IF s = <<>> THEN <<>>
    ELSE IF IsNaN(s[1]) \/ IsNone(s[1]) THEN DropNa(Tail(s))
    ELSE <<s[1]>> \o DropNa(Tail(s))

\* Series.median() of values without NaN; NaN for an empty series
Median(s) ==
    LET o == Sorted(s)
        n == Len(s)
    IN  IF n = 0 THEN NaN
        ELSE IF n % 2 = 1 THEN o[(n + 1) \div 2]
        ELSE NpDiv(Add(o[n \div 2], o[n \div 2 + 1]), Num(2))

----------------------------------------------------------------------------
(* What a call returns or raises *)

Ok(v) == [raised |-> "none", value |-> v]
Raise(e) == [raised |-> e, value |-> None]

----------------------------------------------------------------------------
(* DCFModel, src/models/dcf_model.py *)

DefaultGrowth == <<1, 20>>     \* 0.05
GrowthCap == <<1, 4>>          \* 0.25
GrowthFloor == <<-1, 10>>      \* -0.10

\* Series.sort_index(): the values by ascending period label; dates is a permutation
\* of 1..Len(values)
SortIndex(dates, values) ==
    [i \in 1..Len(values) |-> values[CHOOSE j \in 1..Len(values) : dates[j] = i]]

\* get_historical_fcf: the 'Free Cash Flow' row, or Operating Cash Flow + Capital
\* Expenditure; a statement with neither raises KeyError
get_historical_fcf(cash_flow) ==
    IF "Free Cash Flow" \in DOMAIN cash_flow.rows
    THEN Ok(SortIndex(cash_flow.columns, cash_flow.rows["Free Cash Flow"]))
    ELSE IF "Operating Cash Flow" \notin DOMAIN cash_flow.rows
            \/ "Capital Expenditure" \notin DOMAIN cash_flow.rows
    THEN Raise("KeyError")
    ELSE LET ocf == cash_flow.rows["Operating Cash Flow"]
             capex == cash_flow.rows["Capital Expenditure"]
         IN  Ok(SortIndex(cash_flow.columns,
                          [i \in 1..Len(ocf) |-> Add(ocf[i], capex[i])]))

\* Series.pct_change(): x[i] / x[i-1] - 1, NaN in the first place
PctChange(s) ==
    [i \in 1..Len(s) |-> IF i = 1 THEN NaN ELSE Sub(NpDiv(s[i], s[i - 1]), Num(1))]

calculate_fcf_growth_rate(fcf_historical) ==
    IF Len(fcf_historical) < 2 THEN DefaultGrowth
    ELSE LET growth_rates == DropNa(PctChange(fcf_historical))
             median_growth == Median(growth_rates)
         IN  PyMax(PyMin(median_growth, GrowthCap), GrowthFloor)

\* the loop of project_fcf from year on, current_fcf and projections as they stand
RECURSIVE ProjectLoop(_, _, _, _)
ProjectLoop(current_fcf, growth_rate, year, projections) ==
    IF year > forecast_years THEN projections
    ELSE LET next_fcf == Mul(current_fcf, Add(Num(1), growth_rate))
         IN  ProjectLoop(next_fcf, growth_rate, year + 1, Append(projections, next_fcf))

\* a plausible slip: the loop appends before it grows, so the first value is the base
RECURSIVE ProjectLoopBaseFirst(_, _, _, _)
ProjectLoopBaseFirst(current_fcf, growth_rate, year, projections) ==
    IF year > forecast_years THEN projections
    ELSE ProjectLoopBaseFirst(Mul(current_fcf, Add(Num(1), growth_rate)), growth_rate,
                              year + 1, Append(projections, current_fcf))

project_fcf_base_first(base_fcf, growth_rate) ==
    ProjectLoopBaseFirst(base_fcf, growth_rate, 1, <<>>)

project_fcf(base_fcf, growth_rate) == ProjectLoop(base_fcf, growth_rate, 1, <<>>)

\* calculate_terminal_value: no guard on wacc - terminal_growth_rate.  A Python float
\* divided by 0.0 raises ZeroDivisionError; a numpy float64 (numpy: what the pipeline
\* passes) gives +-inf or NaN
calculate_terminal_value(final_fcf, numpy) ==
    LET numerator == Mul(final_fcf, Add(Num(1), terminal_growth_rate))
        denominator == Sub(wacc, terminal_growth_rate)
    IN  IF denominator[1] = 0 /\ ~numpy THEN Raise("ZeroDivisionError")
        ELSE Ok(NpDiv(numerator, denominator))

\* value / ((1 + wacc) ** t)
PresentValue(value, t) == NpDiv(value, Pow(Add(Num(1), wacc), t))

\* for t, cf in enumerate(cash_flows, start=1): pv = cf / ((1 + wacc) ** t)
discount_cash_flows(cash_flows) ==
    [t \in 1..Len(cash_flows) |-> PresentValue(cash_flows[t], t)]

\* a plausible slip: the terminal value discounted one period later
DiscountTerminalOnePeriodLate(terminal_value) ==
    PresentValue(terminal_value, forecast_years + 1)

\* pv_terminal_value = terminal_value / ((1 + wacc) ** forecast_years)
DiscountTerminal(terminal_value) == PresentValue(terminal_value, forecast_years)

\* try: balance_sheet.loc[label].iloc[0]  except: 0
BalanceOrZero(balance_sheet, label) ==
    IF label \in DOMAIN balance_sheet /\ Len(balance_sheet[label]) > 0
    THEN balance_sheet[label][1]
    ELSE Num(0)

\* info.get(key, default); a key the provider omits is None in the record
InfoGet(info, key, default) == IF IsNone(info[key]) THEN default ELSE info[key]

\* a plausible slip: the guard tests for a non-zero instead of a positive share count
IntrinsicPerShareNonZeroGuard(equity_value, shares_outstanding) ==
    IF shares_outstanding # Num(0) THEN NpDiv(equity_value, shares_outstanding)
    ELSE Num(0)

\* equity_value / shares_outstanding if shares_outstanding > 0 else 0
IntrinsicPerShare(equity_value, shares_outstanding) ==
    IF Lt(Num(0), shares_outstanding) THEN NpDiv(equity_value, shares_outstanding)
    ELSE Num(0)

calculate_enterprise_value(cash_flow, balance_sheet, info) ==
    LET hist == get_historical_fcf(cash_flow)
    IN  IF hist.raised # "none" THEN hist
        ELSE LET fcf_historical == hist.value
        IN  IF Len(fcf_historical) = 0 THEN Raise("IndexError")    \* .iloc[-1]
        ELSE LET base_fcf == fcf_historical[Len(fcf_historical)]
                 growth_rate == calculate_fcf_growth_rate(fcf_historical)
                 projected_fcf == project_fcf(base_fcf, growth_rate)
        IN  IF Len(projected_fcf) = 0 THEN Raise("IndexError")     \* projected_fcf[-1]
        ELSE LET terminal_value ==
                     calculate_terminal_value(projected_fcf[Len(projected_fcf)], TRUE).value
                 pv_fcf == discount_cash_flows(projected_fcf)
                 pv_terminal_value == DiscountTerminal(terminal_value)
                 enterprise_value == Add(Sum(pv_fcf), pv_terminal_value)
                 cash == BalanceOrZero(balance_sheet, "Cash And Cash Equivalents")
                 debt == BalanceOrZero(balance_sheet, "Total Debt")
                 equity_value == Sub(Add(enterprise_value, cash), debt)
                 shares_outstanding == InfoGet(info, "sharesOutstanding", Num(0))
                 intrinsic_value_per_share ==
                     IntrinsicPerShare(equity_value, shares_outstanding)
                 current_price == InfoGet(info, "currentPrice", Num(0))
                 upside ==
                     IF Lt(Num(0), current_price)
                     THEN Mul(NpDiv(Sub(intrinsic_value_per_share, current_price),
                                    current_price), Num(100))
                     ELSE Num(0)
        IN  Ok([base_fcf |-> base_fcf,
                fcf_growth_rate |-> growth_rate,
                projected_fcf |-> projected_fcf,
                terminal_value |-> terminal_value,
                pv_terminal_value |-> pv_terminal_value,
                enterprise_value |-> enterprise_value,
                cash |-> cash,
                debt |-> debt,
                equity_value |-> equity_value,
                shares_outstanding |-> shares_outstanding,
                intrinsic_value_per_share |-> intrinsic_value_per_share,
                current_price |-> current_price,
                upside_downside_pct |-> upside,
                wacc |-> wacc,
                terminal_growth_rate |-> terminal_growth_rate])

----------------------------------------------------------------------------
(* CompAnalysis, src/models/comp_analysis.py *)

\* Tickers are numbered: 0 is the target, 1..MaxPeers are the peers.
TargetTicker == 0

\* multiple_cols of calculate_multiples, in its order
multiple_cols ==
    <<"pe_ratio", "forward_pe", "peg_ratio", "price_to_book", "price_to_sales",
      "ev_to_revenue", "ev_to_ebitda">>

MetricCols == {"price", "enterprise_value"} \cup {multiple_cols[i] : i \in 1..Len(multiple_cols)}

\* The provider's key for each metric (info.get(key) is None for a key it omits).  The
\* descriptive and health fields of the metrics dict are left out: only the header
\* lines of generate_report read them.
InfoKey(col) ==
    CASE col = "price" -> "currentPrice"
      [] col = "enterprise_value" -> "enterpriseValue"
      [] col = "pe_ratio" -> "trailingPE"
      [] col = "forward_pe" -> "forwardPE"
      [] col = "peg_ratio" -> "pegRatio"
      [] col = "price_to_book" -> "priceToBook"
      [] col = "price_to_sales" -> "priceToSalesTrailing12Months"
      [] col = "ev_to_revenue" -> "enterpriseToRevenue"
      [] col = "ev_to_ebitda" -> "enterpriseToEbitda"

_extract_metrics(info, ticker_name) ==
    [c \in MetricCols \cup {"ticker"} |->
        IF c = "ticker" THEN Num(ticker_name) ELSE info[InfoKey(c)]]

\* the loop of fetch_data over comp_tickers[i..]: the metrics of the peers whose fetch
\* succeeds, and the tickers a warning is printed for
RECURSIVE FetchLoop(_, _, _)
FetchLoop(i, comp_metrics, warned) ==
    IF i > Len(comp_tickers) THEN [comp_metrics |-> comp_metrics, warned |-> warned]
    ELSE LET ticker == comp_tickers[i]
         IN  IF provider[ticker].fails
             THEN FetchLoop(i + 1, comp_metrics, Append(warned, ticker))
             ELSE FetchLoop(i + 1,
                            Append(comp_metrics,
                                   _extract_metrics(provider[ticker].info, ticker)),
                            warned)

\* pd.DataFrame(list of dicts): the columns are the dicts' keys, so an empty list gives
\* a frame without columns
DataFrame(records) ==
    [columns |-> IF Len(records) = 0 THEN {} ELSE DOMAIN records[1], rows |-> records]

Column(frame, col) == [i \in 1..Len(frame.rows) |-> frame.rows[i][col]]

Mean(values) == NpDiv(Sum(values), Num(Len(values)))

\* min() / max() of a non-empty series without NaN
Smallest(values) == Sorted(values)[1]
Largest(values) == Sorted(values)[Len(values)]

\* Series.std() (ddof = 1), kept as its square, the sample variance; NaN for one value
StdSquared(values) ==
    LET m == Mean(values)
        sq == [i \in 1..Len(values) |-> Mul(Sub(values[i], m), Sub(values[i], m))]
    IN  NpDiv(Sum(sq), Num(Len(values) - 1))

StatRow(col, values) ==
    IF Len(values) = 0
    THEN [multiple |-> col, mean |-> None, median |-> None, min |-> None, max |-> None,
          std |-> None, count |-> 0]
    ELSE [multiple |-> col, mean |-> Mean(values), median |-> Median(values),
          min |-> Smallest(values), max |-> Largest(values),
          std |-> StdSquared(values), count |-> Len(values)]

\* calculate_multiples without its first two lines: None['pe_ratio'] raises TypeError
calculate_multiples_unguarded(cdata) ==
    IF cdata = <<>> THEN Raise("TypeError")
    ELSE IF \E i \in 1..Len(multiple_cols) : multiple_cols[i] \notin cdata[1].columns
    THEN Raise("KeyError")
    ELSE Ok([i \in 1..Len(multiple_cols) |->
                StatRow(multiple_cols[i], DropNa(Column(cdata[1], multiple_cols[i])))])

\* calculate_multiples on the instance's fields as given: comp_data[col] raises KeyError
\* on a frame without that column
calculate_multiples(cdata) ==
    IF cdata = <<>> THEN Raise("ValueError")
    ELSE IF \E i \in 1..Len(multiple_cols) : multiple_cols[i] \notin cdata[1].columns
    THEN Raise("KeyError")
    ELSE Ok([i \in 1..Len(multiple_cols) |->
                StatRow(multiple_cols[i], DropNa(Column(cdata[1], multiple_cols[i])))])

\* Python truth of a number or None: None and 0 are false
Truthy(x) == ~IsNone(x) /\ x # Num(0)

NoValuations == [k \in {} |-> None]

\* one round of value_target's loop: acc is [raised, valuations] so far
ValueRow(acc, row, method, tdata) ==
    LET comp_multiple == row[method]
        price == tdata["price"]
    IN  IF acc.raised # "none" THEN acc
        ELSE IF IsNone(comp_multiple) \/ IsNaN(comp_multiple) THEN acc
        ELSE IF row.multiple = "pe_ratio"
        THEN IF ~Truthy(tdata["pe_ratio"]) THEN acc
             ELSE IF IsNone(price) THEN [acc EXCEPT !.raised = "TypeError"]
             ELSE LET eps == NpDiv(price, tdata["pe_ratio"])
                  IN  IF ~Truthy(eps) THEN acc
                      ELSE [acc EXCEPT !.valuations =
                              [k \in DOMAIN acc.valuations \cup {"PE"} |->
                                 IF k = "PE"
                                 THEN [implied_price |-> Mul(comp_multiple, eps),
                                       comp_multiple |-> comp_multiple,
                                       current_price |-> price]
                                 ELSE acc.valuations[k]]]
        ELSE IF row.multiple = "price_to_book"
        THEN IF ~Truthy(tdata["price_to_book"]) THEN acc
             ELSE IF IsNone(price) THEN [acc EXCEPT !.raised = "TypeError"]
             ELSE LET bvps == NpDiv(price, tdata["price_to_book"])
                  IN  IF ~Truthy(bvps) THEN acc
                      ELSE [acc EXCEPT !.valuations =
                              [k \in DOMAIN acc.valuations \cup {"P/B"} |->
                                 IF k = "P/B"
                                 THEN [implied_price |-> Mul(comp_multiple, bvps),
                                       comp_multiple |-> comp_multiple,
                                       current_price |-> price]
                                 ELSE acc.valuations[k]]]
        ELSE IF row.multiple = "ev_to_ebitda"
        THEN LET target_ev_ebitda == tdata["ev_to_ebitda"]
                 ev == tdata["enterprise_value"]
             IN  IF ~Truthy(target_ev_ebitda) THEN acc
                 ELSE IF IsNone(ev) THEN [acc EXCEPT !.raised = "TypeError"]
                 ELSE LET target_ebitda == NpDiv(ev, target_ev_ebitda)
                      IN  [acc EXCEPT !.valuations =
                              [k \in DOMAIN acc.valuations \cup {"EV/EBITDA"} |->
                                 IF k = "EV/EBITDA"
                                 THEN [implied_ev |-> Mul(comp_multiple, target_ebitda),
                                       comp_multiple |-> comp_multiple,
                                       current_ev |-> ev]
                                 ELSE acc.valuations[k]]]
        ELSE acc

RECURSIVE ValueLoop(_, _, _, _, _)
ValueLoop(acc, stats, i, method, tdata) ==
    IF i > Len(stats) THEN acc
    ELSE ValueLoop(ValueRow(acc, stats[i], method, tdata), stats, i + 1, method, tdata)

value_target(method, tdata, cdata) ==
    IF tdata = <<>> \/ cdata = <<>> THEN Raise("ValueError")
    ELSE LET stats == calculate_multiples(cdata)
         IN  IF stats.raised # "none" THEN stats
             ELSE LET out == ValueLoop([raised |-> "none", valuations |-> NoValuations],
                                       stats.value, 1, method, tdata[1])
                  IN  IF out.raised # "none" THEN Raise(out.raised)
                      ELSE Ok([method |-> method, valuations |-> out.valuations])

\* f"{v:.2f}" and f"{v:+.1f}": the decimal text of v * mult / div, kept as
\* <<digits, places>> (62.5 with two places is <<6250, 2>>), rounded half to even;
\* 'inf' and 'nan' are kept as the value itself, the sign of a negative value that
\* rounds to zero is not
Fixed(v, places, div) ==
    IF ~IsFinite(v) THEN v
    ELSE LET q == v[1] * (IF places = 2 THEN 100 ELSE 10)
             d == v[2] * div
             fl == q \div d
             rem == q - fl * d
         IN  <<IF 2 * rem < d THEN fl
               ELSE IF 2 * rem > d THEN fl + 1
               ELSE IF fl % 2 = 0 THEN fl ELSE fl + 1,
               places>>

Billion == 1000000000

NoDataText == "No data available. Run fetch_data() first."
ReportTitle == "COMPARABLE COMPANY ANALYSIS"

\* the 'TRADING MULTIPLES' lines from row i on: one for each median that is true and
\* not NaN
RECURSIVE MedianLines(_, _)
MedianLines(stats, i) ==
    IF i > Len(stats) THEN <<>>
    ELSE LET row == stats[i]
         IN  (IF Truthy(row.median) /\ ~IsNaN(row.median)
              THEN <<[multiple |-> row.multiple, median |-> Fixed(row.median, 2, 1)]>>
              ELSE <<>>)
             \o MedianLines(stats, i + 1)

\* the line of one entry of the valuations dict
ValuationLine(metric, data, current_price) ==
    IF "implied_price" \in DOMAIN data
    THEN LET implied == data.implied_price
             upside == IF Truthy(current_price)
                       THEN Mul(Sub(NpDiv(implied, current_price), Num(1)), Num(100))
                       ELSE Num(0)
         IN  [metric |-> metric, implied |-> Fixed(implied, 2, 1),
              upside |-> Fixed(upside, 1, 1)]
    ELSE LET implied == data.implied_ev
             current == data.current_ev
             upside == IF Truthy(current)
                       THEN Mul(Sub(NpDiv(implied, current), Num(1)), Num(100))
                       ELSE Num(0)
         IN  [metric |-> metric, implied |-> Fixed(implied, 2, Billion),
              upside |-> Fixed(upside, 1, 1)]

\* the 'IMPLIED VALUATION' lines: the entries in the order value_target inserts them,
\* or the one line of the except branch
ValuationLines(tdata, cdata) ==
    LET vt == value_target("median", tdata, cdata)
        keys == <<"PE", "P/B", "EV/EBITDA">>
        present == SelectSeq(keys, LAMBDA k : k \in DOMAIN vt.value.valuations)
    IN  IF vt.raised # "none" THEN <<[could_not_calculate |-> vt.raised]>>
        ELSE [i \in 1..Len(present) |->
                ValuationLine(present[i], vt.value.valuations[present[i]],
                              tdata[1]["price"])]

\* generate_report on the instance's fields as given.  Only target_data is tested;
\* len(None) raises TypeError; calculate_multiples is called outside the try block.
\* The company, sector, industry and market cap lines and the time stamp are left out.
generate_report(tdata, cdata) ==
    IF tdata = <<>> THEN Ok([text |-> NoDataText])
    ELSE IF cdata = <<>> THEN Raise("TypeError")
    ELSE LET stats == calculate_multiples(cdata)
         IN  IF stats.raised # "none" THEN stats
             ELSE Ok([text |-> ReportTitle,
                      price |-> IF Truthy(tdata[1]["price"])
                                THEN Fixed(tdata[1]["price"], 2, 1) ELSE None,
                      comps |-> Column(cdata[1], "ticker"),
                      multiples |-> MedianLines(stats.value, 1),
                      valuation |-> ValuationLines(tdata, cdata)])

----------------------------------------------------------------------------
(* Inputs of the DCFModel calls *)

FcfValues == {-2, 0, 2, 4, 5}

\* FCF histories in chronological order, up to k points
Histories(k) == UNION {[1..n -> {Num(v) : v \in FcfValues}] : n \in 0..k}

DoublingSeries == <<Num(1), Num(2), Num(4), Num(8), Num(16)>>

WaccValues == {<<1, 10>>, <<1, 4>>}
TgValues == {<<1, 40>>, <<1, 10>>, <<1, 4>>}
GrowthInputs == {<<-1, 2>>, GrowthFloor, Num(0), DefaultGrowth, <<1, 10>>, GrowthCap, Num(1)}
BaseInputs == {Num(v) : v \in FcfValues \cup {100}}
CashFlowInputs == {<<>>, <<Num(110)>>, <<Num(110), Num(121)>>, <<Num(-2), Num(0), Num(5)>>}

\* The cash flow statement as the provider gives it: the columns newest first, and
\* either a 'Free Cash Flow' row, or the two rows it is derived from (capex negative),
\* or neither.
CashFlowStatement(h, layout) ==
    LET k == Len(h)
        newest_first == [i \in 1..k |-> h[k + 1 - i]]
        capex == [i \in 1..k |-> Num(-3)]
    IN  [columns |-> [i \in 1..k |-> k + 1 - i],
         rows |->
            CASE layout = "fcf" -> [r \in {"Free Cash Flow"} |-> newest_first]
              [] layout = "ocf_capex" ->
                    [r \in {"Operating Cash Flow", "Capital Expenditure"} |->
                        IF r = "Capital Expenditure" THEN capex
                        ELSE [i \in 1..k |-> Sub(newest_first[i], capex[i])]]
              [] layout = "neither" -> [r \in {} |-> <<>>]]

Layouts == {"fcf", "ocf_capex", "neither"}

\* The balance sheet: the rows the provider has, newest column first
BalanceSheets ==
    {[l \in labels |-> IF l = "Total Debt" THEN <<Num(20), Num(25)>> ELSE <<Num(50), Num(40)>>] :
        labels \in SUBSET {"Cash And Cash Equivalents", "Total Debt"}}

\* stock.info: sharesOutstanding and currentPrice, each an integer or omitted
Infos ==
    {[k \in {"sharesOutstanding", "currentPrice"} |->
        IF k = "sharesOutstanding" THEN s ELSE p] :
        s \in {None, Num(-2), Num(0), Num(2)}, p \in {None, Num(10)}}

----------------------------------------------------------------------------
(* Inputs of the CompAnalysis calls *)

Methods == {"mean", "median", "min", "max"}

InfoKeys == {InfoKey(c) : c \in MetricCols}

\* target infos: price and P/E free; the P/B and EV fields degrade one at a time
TargetInfos ==
    {[k \in InfoKeys |->
        CASE k = "currentPrice" -> price
          [] k = "trailingPE" -> pe
          [] k = "priceToBook" -> rest[1]
          [] k = "enterpriseValue" -> rest[2]
          [] k = "enterpriseToEbitda" -> rest[3]
          [] OTHER -> None] :
        price \in {None, Num(0), Num(50)},
        pe \in {None, Num(0), Num(20)},
        rest \in {<<Num(5), Num(1000), Num(10)>>,
                  <<None, Num(1000), Num(10)>>, <<Num(0), Num(1000), Num(10)>>,
                  <<Num(5), None, Num(10)>>, <<Num(5), Num(0), Num(10)>>,
                  <<Num(5), Num(1000), None>>, <<Num(5), Num(1000), Num(0)>>,
                  <<None, None, None>>}}

\* peer infos: nothing known; the P/E only; everything; everything but the P/E
PeerInfos ==
    {[k \in InfoKeys |->
        IF k = "trailingPE" THEN v[1]
        ELSE IF k \in {"currentPrice", "enterpriseValue"} THEN Num(40)
        ELSE v[2]] :
        v \in {<<None, None>>, <<Num(10), None>>, <<Num(30), Num(4)>>, <<None, Num(4)>>}}

NoInfo == [k \in InfoKeys |-> None]

Fetches(infos) ==
    {[fails |-> FALSE, info |-> i] : i \in infos} \cup {[fails |-> TRUE, info |-> NoInfo]}

----------------------------------------------------------------------------
(* State after construction *)

NoCall == [op |-> "none"]
NoRet == Ok(None)

\* DCFModel.__init__
DcfInit(years, tgs, waccs) ==
    /\ forecast_years \in years
    /\ terminal_growth_rate \in tgs
    /\ wacc \in waccs
    /\ dcf_pc = "idle"
    /\ dcf_call = NoCall
    /\ dcf_ret = NoRet

\* CompAnalysis.__init__, and the provider's data for the tickers
CompInit(peers, target_fetches, peer_fetches) ==
    /\ comp_tickers \in {[i \in 1..k |-> i] : k \in peers}
    /\ provider \in {[t \in 0..Len(comp_tickers) |->
                        IF t = TargetTicker THEN tf ELSE pf[t]] :
                     tf \in target_fetches,
                     pf \in [1..Len(comp_tickers) -> peer_fetches]}
    /\ target_data = <<>>
    /\ comp_data = <<>>
    /\ comp_pc = "idle"
    /\ comp_call = NoCall
    /\ comp_ret = NoRet
    /\ stdout = <<>>

----------------------------------------------------------------------------
(* Calls on the DCFModel instance.  A call runs to its end in one step. *)

CallGrowthRate ==
    /\ dcf_pc = "idle"
    /\ \E h \in Histories(MaxHist) \cup {DoublingSeries} :
          /\ dcf_call' = [op |-> "calculate_fcf_growth_rate", fcf_historical |-> h]
          /\ dcf_ret' = Ok(calculate_fcf_growth_rate(h))
    /\ dcf_pc' = "done"
    /\ UNCHANGED <<forecast_years, terminal_growth_rate, wacc, comp_vars>>

CallProjectFcf ==
    /\ dcf_pc = "idle"
    /\ \E b \in BaseInputs, g \in GrowthInputs :
          /\ dcf_call' = [op |-> "project_fcf", base_fcf |-> b, growth_rate |-> g]
          /\ dcf_ret' = Ok(project_fcf(b, g))
    /\ dcf_pc' = "done"
    /\ UNCHANGED <<forecast_years, terminal_growth_rate, wacc, comp_vars>>

CallTerminalValue ==
    /\ dcf_pc = "idle"
    /\ \E f \in BaseInputs, numpy \in BOOLEAN :
          /\ dcf_call' = [op |-> "calculate_terminal_value", final_fcf |-> f,
                          numpy |-> numpy]
          /\ dcf_ret' = calculate_terminal_value(f, numpy)
    /\ dcf_pc' = "done"
    /\ UNCHANGED <<forecast_years, terminal_growth_rate, wacc, comp_vars>>

CallDiscountCashFlows ==
    /\ dcf_pc = "idle"
    /\ \E cfs \in CashFlowInputs :
          /\ dcf_call' = [op |-> "discount_cash_flows", cash_flows |-> cfs]
          /\ dcf_ret' = Ok(discount_cash_flows(cfs))
    /\ dcf_pc' = "done"
    /\ UNCHANGED <<forecast_years, terminal_growth_rate, wacc, comp_vars>>

CallEnterpriseValue ==
    /\ dcf_pc = "idle"
    /\ \E h \in Histories(MaxPipeHist), layout \in Layouts,
          bs \in BalanceSheets, info \in Infos :
          /\ dcf_call' = [op |-> "calculate_enterprise_value", history |-> h,
                          cash_flow |-> CashFlowStatement(h, layout),
                          balance_sheet |-> bs, info |-> info]
          /\ dcf_ret' = calculate_enterprise_value(CashFlowStatement(h, layout), bs, info)
    /\ dcf_pc' = "done"
    /\ UNCHANGED <<forecast_years, terminal_growth_rate, wacc, comp_vars>>

\* the caller takes the result; the instance is as before the call
DcfReturn ==
    /\ dcf_pc = "done"
    /\ dcf_pc' = "idle"
    /\ dcf_call' = NoCall
    /\ dcf_ret' = NoRet
    /\ UNCHANGED <<forecast_years, terminal_growth_rate, wacc, comp_vars>>

----------------------------------------------------------------------------
(* Calls on the CompAnalysis instance *)

\* fetch_data: a failing target fetch raises before any field is assigned; a failing
\* peer fetch is printed and skipped.  The method returns None.
CallFetchData ==
    /\ comp_pc = "idle"
    /\ comp_call' = [op |-> "fetch_data"]
    /\ IF provider[TargetTicker].fails
       THEN /\ comp_ret' = Raise("Exception")
            /\ UNCHANGED <<target_data, comp_data, stdout>>
       ELSE LET loop == FetchLoop(1, <<>>, <<>>)
            IN  /\ target_data' =
                      <<_extract_metrics(provider[TargetTicker].info, TargetTicker)>>
                /\ comp_data' = <<DataFrame(loop.comp_metrics)>>
                /\ stdout' = loop.warned
                /\ comp_ret' = Ok(None)
    /\ comp_pc' = "done"
    /\ UNCHANGED <<provider, comp_tickers, dcf_vars>>

CallCalculateMultiples ==
    /\ comp_pc = "idle"
    /\ comp_call' = [op |-> "calculate_multiples"]
    /\ comp_ret' = calculate_multiples(comp_data)
    /\ comp_pc' = "done"
    /\ UNCHANGED <<provider, comp_tickers, target_data, comp_data, stdout, dcf_vars>>

CallValueTarget ==
    /\ comp_pc = "idle"
    /\ \E method \in Methods :
          /\ comp_call' = [op |-> "value_target", method |-> method]
          /\ comp_ret' = value_target(method, target_data, comp_data)
    /\ comp_pc' = "done"
    /\ UNCHANGED <<provider, comp_tickers, target_data, comp_data, stdout, dcf_vars>>

CallGenerateReport ==
    /\ comp_pc = "idle"
    /\ comp_call' = [op |-> "generate_report"]
    /\ comp_ret' = generate_report(target_data, comp_data)
    /\ comp_pc' = "done"
    /\ UNCHANGED <<provider, comp_tickers, target_data, comp_data, stdout, dcf_vars>>

CompReturn ==
    /\ comp_pc = "done"
    /\ comp_pc' = "idle"
    /\ comp_call' = NoCall
    /\ comp_ret' = NoRet
    /\ UNCHANGED <<provider, comp_tickers, target_data, comp_data, stdout, dcf_vars>>

----------------------------------------------------------------------------
(* Specifications *)

\* A DCFModel with any of the modelled assumptions; the CompAnalysis is left alone
Init ==
    /\ DcfInit(0..MaxYears, TgValues, WaccValues)
    /\ CompInit({0}, Fetches({}), Fetches({}))

Next ==
    \/ CallGrowthRate
    \/ CallProjectFcf
    \/ CallTerminalValue
    \/ CallDiscountCashFlows
    \/ CallEnterpriseValue
    \/ DcfReturn

Spec == Init /\ [][Next]_vars

\* A CompAnalysis over any of the modelled provider data; the DCFModel has its defaults
\* (forecast_years=5, terminal_growth_rate=0.025, wacc=0.10) and is left alone
InitComp ==
    /\ DcfInit({5}, {<<1, 40>>}, {<<1, 10>>})
    /\ CompInit(0..MaxPeers, Fetches(TargetInfos), Fetches(PeerInfos))

NextComp ==
    \/ CallFetchData
    \/ CallCalculateMultiples
    \/ CallValueTarget
    \/ CallGenerateReport
    \/ CompReturn

SpecComp == InitComp /\ [][NextComp]_vars

----------------------------------------------------------------------------
(* Claims about DCFModel, checked under Spec *)

DcfDone(op) == dcf_pc = "done" /\ dcf_call.op = op

\* C1 (as claimed): whenever calculate_terminal_value, or calculate_enterprise_value
\* once it has a base FCF and a projection, runs with wacc <= terminal_growth_rate, the
\* call fails with a domain error: it returns no terminal value and lets no
\* ZeroDivisionError escape.
C1_TerminalValueFailsUnlessWaccAboveGrowth ==
    /\ (DcfDone("calculate_terminal_value") /\ Le(wacc, terminal_growth_rate))
          => dcf_ret.raised \notin {"none", "ZeroDivisionError"}
    /\ (DcfDone("calculate_enterprise_value") /\ Le(wacc, terminal_growth_rate)
          /\ Len(dcf_call.history) > 0 /\ forecast_years >= 1
          /\ DOMAIN dcf_call.cash_flow.rows # {})
          => dcf_ret.raised \notin {"none", "ZeroDivisionError"}

\* C2 (as claimed): for every history, the value calculate_fcf_growth_rate returns lies
\* in [-0.10, +0.25].
C2_GrowthRateWithinClamp ==
    DcfDone("calculate_fcf_growth_rate")
        => /\ Le(GrowthFloor, dcf_ret.value)
           /\ Le(dcf_ret.value, GrowthCap)

\* C5: calculate_enterprise_value never ends in an error owed to the share count (it
\* raises only for a statement without FCF rows, an empty history or a zero horizon);
\* intrinsic_value_per_share is equity_value / shares_outstanding when the provider
\* gives a positive share count, and 0 when the count is <= 0 or omitted.
C5_PerShareValueGuarded ==
    DcfDone("calculate_enterprise_value") =>
        LET shares == dcf_call.info["sharesOutstanding"]
            r == dcf_ret.value
        IN  /\ dcf_ret.raised \in {"none", "KeyError", "IndexError"}
            /\ dcf_ret.raised = "KeyError" => DOMAIN dcf_call.cash_flow.rows = {}
            /\ dcf_ret.raised = "IndexError"
                  => (Len(dcf_call.history) = 0 \/ forecast_years = 0)
            /\ dcf_ret.raised = "none" =>
                  /\ (~IsNone(shares) /\ shares[1] > 0)
                        => r.intrinsic_value_per_share
                              = NpDiv(r.equity_value, shares)
                  /\ (IsNone(shares) \/ shares[1] <= 0)
                        => r.intrinsic_value_per_share = Num(0)

\* C5 witness: a valuation of a company whose share count the provider omits, with a
\* non-zero equity value, gives 0 per share
C5_Witness ==
    /\ DcfDone("calculate_enterprise_value")
    /\ dcf_ret.raised = "none"
    /\ IsNone(dcf_call.info["sharesOutstanding"])
    /\ IsFinite(dcf_ret.value.equity_value)
    /\ dcf_ret.value.equity_value # Num(0)
    /\ dcf_ret.value.intrinsic_value_per_share = Num(0)

\* C6 (as claimed): a cash or total-debt line the balance sheet lacks is carried into
\* the result as unknown (None), not as 0.
C6_MissingCashDebtStayUnknown ==
    (DcfDone("calculate_enterprise_value") /\ dcf_ret.raised = "none") =>
        /\ "Cash And Cash Equivalents" \notin DOMAIN dcf_call.balance_sheet
              => IsNone(dcf_ret.value.cash)
        /\ "Total Debt" \notin DOMAIN dcf_call.balance_sheet
              => IsNone(dcf_ret.value.debt)

\* C7: for a horizon n >= 1, project_fcf returns n values, the k-th being
\* base * (1 + g)^k: the first is base * (1 + g) and each later one is the one before
\* times (1 + g).
C7_ProjectionIsGeometric ==
    (DcfDone("project_fcf") /\ forecast_years >= 1) =>
        LET b == dcf_call.base_fcf
            g == dcf_call.growth_rate
            out == dcf_ret.value
        IN  /\ dcf_ret.raised = "none"
            /\ Len(out) = forecast_years
            /\ \A k \in 1..forecast_years : out[k] = Mul(b, Pow(Add(Num(1), g), k))
            /\ out[1] = Mul(b, Add(Num(1), g))
            /\ \A k \in 2..forecast_years : out[k] = Mul(out[k - 1], Add(Num(1), g))

\* C7 witness: project(base=100, g=0.10) over 3 years is [110, 121, 133.1]
C7_Witness ==
    /\ DcfDone("project_fcf")
    /\ forecast_years = 3
    /\ dcf_call.base_fcf = Num(100)
    /\ dcf_call.growth_rate = <<1, 10>>
    /\ dcf_ret.value = <<Num(110), Num(121), <<1331, 10>>>>

\* the sum over t = 1..n of flows[t] / (1 + wacc)^t
RECURSIVE DiscountedSum(_, _)
DiscountedSum(flows, n) ==
    IF n = 0 THEN Num(0)
    ELSE Add(DiscountedSum(flows, n - 1), NpDiv(flows[n], Pow(Add(Num(1), wacc), n)))

\* C8: in a result of calculate_enterprise_value over n = forecast_years periods, the
\* terminal value is projected_fcf[n] * (1 + g) / (wacc - g) and is discounted by
\* (1 + wacc)^n, enterprise_value is the sum of projected_fcf[t] / (1 + wacc)^t for
\* t = 1..n plus that discounted terminal value, and equity_value is
\* enterprise_value + cash - debt; discount_cash_flows divides its t-th flow by
\* (1 + wacc)^t.
C8_EnterpriseValueIsDiscountedSum ==
    /\ (DcfDone("calculate_enterprise_value") /\ dcf_ret.raised = "none") =>
          LET r == dcf_ret.value
              n == forecast_years
              growth == Pow(Add(Num(1), wacc), n)
          IN  /\ Len(r.projected_fcf) = n
              /\ r.terminal_value =
                    NpDiv(Mul(r.projected_fcf[n], Add(Num(1), terminal_growth_rate)),
                          Sub(wacc, terminal_growth_rate))
              /\ r.pv_terminal_value = NpDiv(r.terminal_value, growth)
              /\ r.enterprise_value =
                    Add(DiscountedSum(r.projected_fcf, n), r.pv_terminal_value)
              /\ r.equity_value = Sub(Add(r.enterprise_value, r.cash), r.debt)
    /\ DcfDone("discount_cash_flows") =>
          /\ Len(dcf_ret.value) = Len(dcf_call.cash_flows)
          /\ \A t \in 1..Len(dcf_call.cash_flows) :
                dcf_ret.value[t] =
                    NpDiv(dcf_call.cash_flows[t], Pow(Add(Num(1), wacc), t))

\* C8 witness: two forecast years at wacc 10% and terminal growth 2.5% from a flat
\* history of 4: flows 4 and 4, terminal value 4 * 1.025 / 0.075, all finite, with cash
\* and debt on the balance sheet
C8_Witness ==
    /\ DcfDone("calculate_enterprise_value")
    /\ dcf_ret.raised = "none"
    /\ forecast_years = 2 /\ wacc = <<1, 10>> /\ terminal_growth_rate = <<1, 40>>
    /\ dcf_call.history = <<Num(4), Num(4)>>
    /\ DOMAIN dcf_call.balance_sheet = {"Cash And Cash Equivalents", "Total Debt"}
    /\ dcf_ret.value.projected_fcf = <<Num(4), Num(4)>>
    /\ dcf_ret.value.terminal_value = <<164, 3>>
    /\ dcf_ret.value.pv_terminal_value = NpDiv(<<164, 3>>, <<121, 100>>)
    /\ dcf_ret.value.equity_value
          = Add(Add(Add(<<40, 11>>, <<400, 121>>), NpDiv(<<164, 3>>, <<121, 100>>)), Num(30))

----------------------------------------------------------------------------
(* Claims about CompAnalysis, checked under SpecComp *)

CompDone(op) == comp_pc = "done" /\ comp_call.op = op

Fetched == target_data # <<>> /\ comp_data # <<>>

\* the peers of comp_tickers whose fetch fails, or succeeds, in list order
PeersWhere(fails) == SelectSeq(comp_tickers, LAMBDA t : provider[t].fails = fails)

\* C3 (as claimed, for a comp group with at least one fetched peer): if a target field
\* that a rule needs is missing or zero, value_target returns without raising and its
\* result has no entry under that rule's key.
C3_DegradedRuleIsSkippedSilently ==
    (CompDone("value_target") /\ Fetched /\ Len(comp_data[1].rows) > 0) =>
        LET t == target_data[1]
            Skipped(key) ==
                /\ comp_ret.raised = "none"
                /\ key \notin DOMAIN comp_ret.value.valuations
        IN  /\ (~Truthy(t["price"]) \/ ~Truthy(t["pe_ratio"])) => Skipped("PE")
            /\ (~Truthy(t["price"]) \/ ~Truthy(t["price_to_book"])) => Skipped("P/B")
            /\ (~Truthy(t["enterprise_value"]) \/ ~Truthy(t["ev_to_ebitda"]))
                  => Skipped("EV/EBITDA")

\* C4 (as claimed): after fetch_data returns, comp_data holds exactly the peers whose
\* fetch succeeded, in list order, and the peers whose fetch failed are handed back to
\* the caller as a warning list.
C4_FailedPeersAreReported ==
    (CompDone("fetch_data") /\ comp_ret.raised = "none") =>
        /\ [i \in 1..Len(comp_data[1].rows) |-> comp_data[1].rows[i]["ticker"]]
              = [i \in 1..Len(PeersWhere(FALSE)) |-> Num(PeersWhere(FALSE)[i])]
        /\ PeersWhere(TRUE) # <<>> => comp_ret.value = PeersWhere(TRUE)

\* C9 (as claimed): once fetch_data has completed, calculate_multiples never raises; a
\* multiple no fetched peer supplies gets count 0 and unknown aggregates (also when no
\* peer was fetched at all), any other gets the count of the peers supplying it and
\* aggregates over their values.
C9_StatsNeverRaiseAfterFetch ==
    (CompDone("calculate_multiples") /\ comp_data # <<>>) =>
        /\ comp_ret.raised = "none"
        /\ \A i \in 1..Len(multiple_cols) :
              LET rows == comp_data[1].rows
                  col == multiple_cols[i]
                  supplied == {j \in 1..Len(rows) : ~IsNone(rows[j][col])}
                  row == comp_ret.value[i]
              IN  IF supplied = {}
                  THEN /\ row.count = 0
                       /\ \A a \in {"mean", "median", "min", "max", "std"} : IsNone(row[a])
                  ELSE /\ row.count = Cardinality(supplied)
                       /\ \E j \in supplied : row.min = rows[j][col]
                       /\ \E j \in supplied : row.max = rows[j][col]
                       /\ \A j \in supplied :
                             Le(row.min, rows[j][col]) /\ Le(rows[j][col], row.max)
                       /\ Le(row.min, row.median) /\ Le(row.median, row.max)
                       /\ Le(row.min, row.mean) /\ Le(row.mean, row.max)

\* C10 (as claimed, for a non-zero target price): when the target's price and P/E are
\* present and non-zero and the peers' P/E statistic of the chosen kind is known,
\* value_target returns a result with an entry 'PE' whose implied_price is that
\* statistic times price / P/E, whose comp_multiple is the statistic and whose
\* current_price is the target's price.
C10_PeRuleGivesImpliedPrice ==
    LET peer_pe == IF comp_data = <<>> THEN <<>>
                   ELSE DropNa([i \in 1..Len(comp_data[1].rows) |->
                                   comp_data[1].rows[i]["pe_ratio"]])
    IN  (CompDone("value_target") /\ Fetched /\ Len(peer_pe) > 0
            /\ Truthy(target_data[1]["price"]) /\ Truthy(target_data[1]["pe_ratio"])) =>
           LET price == target_data[1]["price"]
               stat == StatRow("pe_ratio", peer_pe)[comp_call.method]
           IN  /\ comp_ret.raised = "none"
               /\ "PE" \in DOMAIN comp_ret.value.valuations
               /\ comp_ret.value.valuations["PE"] =
                     [implied_price |->
                          Mul(stat, NpDiv(price, target_data[1]["pe_ratio"])),
                      comp_multiple |-> stat,
                      current_price |-> price]

\* the fetched peers that supply a value for the multiple col
Suppliers(col) ==
    {j \in 1..Len(comp_data[1].rows) : ~IsNone(comp_data[1].rows[j][col])}

\* C11 (as claimed, for a comp group with at least one fetched peer): when no fetched
\* peer supplies any of the multiples, so that every multiple has count 0, value_target
\* stops with a domain error (ValueError); it does not return a valuation mapping.
C11_NoContributingPeerIsAnError ==
    (/\ CompDone("value_target")
     /\ Fetched
     /\ Len(comp_data[1].rows) > 0
     /\ \A i \in 1..Len(multiple_cols) : Suppliers(multiple_cols[i]) = {})
        => comp_ret.raised = "ValueError"

\* the period-over-period relative changes (x[i+1] - x[i]) / x[i] of a history
RelativeChanges(x) ==
    [i \in 1..(Len(x) - 1) |-> NpDiv(Sub(x[i + 1], x[i]), x[i])]

\* v limited to at most GrowthCap and at least GrowthFloor
Limited(v) ==
    IF Lt(v, GrowthFloor) THEN GrowthFloor
    ELSE IF Lt(GrowthCap, v) THEN GrowthCap
    ELSE v

\* C12 (as claimed): calculate_fcf_growth_rate returns exactly 0.05 for a history of
\* fewer than two points; for a history of two or more points the value it returns is
\* at most 0.25 and at least -0.10, and is the limited median of the relative changes
\* (x[i+1] - x[i]) / x[i] wherever all of them are defined (no x[i] is 0).
C12_GrowthRateIsLimitedMedian ==
    DcfDone("calculate_fcf_growth_rate") =>
        LET x == dcf_call.fcf_historical
            changes == RelativeChanges(x)
        IN  IF Len(x) < 2 THEN dcf_ret = Ok(DefaultGrowth)
            ELSE /\ dcf_ret.raised = "none"
                 /\ Le(GrowthFloor, dcf_ret.value)
                 /\ Le(dcf_ret.value, GrowthCap)
                 /\ (\A i \in 1..Len(changes) : IsFinite(changes[i]))
                        => dcf_ret.value = Limited(Median(changes))

GuardedOps == {"calculate_multiples", "value_target", "generate_report"}

\* a call of op is made in this step
CompCalls(op) == comp_pc = "idle" /\ comp_pc' = "done" /\ comp_call'.op = op

\* what the guard of the operation in comp_call gives: ValueError, or the report's
\* 'No data available' text
Rejected ==
    IF comp_call.op = "generate_report"
    THEN comp_ret.raised = "none" /\ comp_ret.value.text = NoDataText
    ELSE comp_ret.raised = "ValueError"

\* the fields are None together; while they are, a finished guarded operation has been
\* rejected, and once they are set none is
GuardState ==
    /\ (target_data = <<>>) <=> (comp_data = <<>>)
    /\ (comp_pc = "done" /\ comp_call.op \in GuardedOps) => (Rejected <=> ~Fetched)

\* a rejected call leaves both fields None; a fetch_data that fails on the target raises
\* and leaves both fields None, any other fetch_data returns with both fields set; the
\* fields become set by a fetch_data that returns, and stay set
GuardStep ==
    /\ (~Fetched /\ \E op \in GuardedOps : CompCalls(op))
          => target_data' = <<>> /\ comp_data' = <<>>
    /\ CompCalls("fetch_data")
          => IF provider[TargetTicker].fails
             THEN comp_ret'.raised # "none" /\ target_data' = <<>> /\ comp_data' = <<>>
             ELSE comp_ret'.raised = "none" /\ Fetched'
    /\ (~Fetched /\ Fetched') => (CompCalls("fetch_data") /\ comp_ret'.raised = "none")
    /\ Fetched => Fetched'

====
